---- MODULE Spec2Model ----
(***************************************************************************)
(* Model of the Klaviyo -> Shopify enrichment pipeline.                    *)
(*                                                                         *)
(*   src/fetch_klaviyo_profiles.js : the paginated segment fetcher         *)
(*   src/unnamed/part_000 (159-331): the per-record enricher               *)
(*                                                                         *)
(* The two scripts are separate processes that meet only through files:    *)
(* klaviyo_profiles.json (the snapshot) and enriched_profiles2.ndjson (the *)
(* log).  SpecFetch is one run of the fetcher; SpecEnrich is any number of *)
(* runs of the enricher over a snapshot the fetcher can have written.      *)
(* Every action is the synchronous code between two awaits.                *)
(***************************************************************************)
EXTENDS Integers, Sequences, FiniteSets, TLC

\* ---------------------------------------------------------------- bounds
MaxPages == 2           \* pages the upstream serves in one fetch run
MaxLimit == 2           \* largest value of the parameter limit
MaxRetriesBound == 2    \* largest value of the parameter maxRetries

\* ------------------------------------------------------ program constants
BackoffUnitMs == 500
ThrottleMs == 150

Null == "NULL"          \* JavaScript null / undefined for a cursor

Min(a, b) == IF a < b THEN a ELSE b

\* ------------------------------------------------------------ the upstream
\* An email is a sequence of characters, so that lowercasing and trimming
\* are computed and not assumed.
\* A profile of the segment endpoint: id and attributes.email; the profile
\* without an email field has attributes.email undefined.
RawProfiles ==
  { [id |-> 1, email |-> <<"a">>],
    [id |-> 2, email |-> <<"A", " ">>],
    [id |-> 3, email |-> <<" ", "b">>],
    [id |-> 4, email |-> <<" ">>],
    [id |-> 5] }

\* json.data of one page: no profile, one or two (so that an email can
\* repeat inside a page as well as across pages)
PageData ==
  {<<>>} \cup { <<p>> : p \in RawProfiles }
         \cup { <<p, q>> : p \in RawProfiles, q \in RawProfiles }

Cursors == {"c1", "c2"}

\* json.links.next: absent, a string that is no URL, or a URL whose
\* page[cursor] parameter is absent (Null) or a cursor.
Links ==
  { [kind |-> "none", cursor |-> Null], [kind |-> "bad", cursor |-> Null] }
  \cup { [kind |-> "url", cursor |-> c] : c \in Cursors \cup {Null} }

\* The variable json: null, a payload without a data array, or a payload
\* with one; its data is consumed by the action that receives it, so only
\* links.next is kept.
NoJson == [kind |-> "null", next |-> [kind |-> "none", cursor |-> Null]]
MalformedJson == [kind |-> "malformed", next |-> [kind |-> "none", cursor |-> Null]]
OkJson(next) == [kind |-> "ok", next |-> next]

\* ------------------------------------------------------------- fetcher
VARIABLES
  limit, maxRetries,      \* parameters of fetchAllKlaviyoSegmentProfiles
  fpc,                    \* "start" | "request" | "backoff" | "throttle" | "done" | "interrupted"
  profiles, seenEmails, cursor, page, attempt, json,
  snapshot, snapState,    \* klaviyo_profiles.json: content, "absent" | "ok" | "corrupt"
  delay,                  \* the timer the fetcher is waiting on, in ms (0: none)
  reqCursor,              \* page[cursor] of the request in flight or last issued
  reqsThisPage,           \* requests issued for the current page
  pageEmails,             \* the non-empty normalized emails of the pages processed so far
  lastSave,               \* "none" | "ok" | "failed": the save after the last page
  abandoned,              \* the page was given up after the retries
  dropped                 \* a profile was left out because its email was seen before

fvars == << limit, maxRetries, fpc, profiles, seenEmails, cursor, page, attempt,
            json, snapshot, snapState, delay, reqCursor, reqsThisPage,
            pageEmails, lastSave, abandoned, dropped >>

\* ------------------------------------------------------------- enricher
VARIABLES
  epc,                    \* "idle" (no process) | "customerReq" | "rateWait" | "orderReq" | "returned"
  processedEmails,        \* line 197: loaded once when the module is loaded
  inProfiles,             \* line 320: the list main read from klaviyo_profiles.json
  idx,                    \* position of the for loop of enrichKlaviyoProfiles
  processedCount, enrichedProfiles,
  customer,               \* the customer of the profile at idx, once found
  log,                    \* enriched_profiles2.ndjson: the lines on disk
  pending,                \* lines given to a write stream and not yet on disk
  edelay,                 \* the timer the enricher is waiting on, in ms (0: none)
  runs,                   \* enricher runs started
  n429,                   \* 429 answers to the lookup of the profile at idx
  outcome,                \* this run: what became of each profile visited so far
  startLogEmails,         \* this run: the emails the log held when the run started
  everSkipped             \* the emails skipped so far for a missing customer or order or a failed lookup

evars == << epc, processedEmails, inProfiles, idx, processedCount, enrichedProfiles,
            customer, log, pending, edelay, runs, n429, outcome, startLogEmails,
            everSkipped >>

\* ------------------------------------------------------------- network
VARIABLES
  inFlight                \* the HTTP requests issued and not yet answered, oldest first

\* ----------------------------------------------------- the csv script
VARIABLES
  csvProfiles,            \* part_000 line 121: what fetchKlaviyoProfiles returned
  xpc,                    \* "absent" | "start" | "customerReq" | "orderReq" | "written" | "noData" | "failed"
  xidx,                   \* position of the for loop of enrichProfilesWithShopifyOrders
  xcustomer,              \* the customer of the profile at xidx, once found
  results,                \* line 87: the rows collected so far
  csvFile,                \* enriched_klaviyo_shopify_data.csv: Null, or its records
  xanswers                \* the answer of the order lookup behind each row asked for

\* ---------------------------------------------------- the chart script
VARIABLES
  chartLines,             \* enriched_profiles2.ndjson as generatePieChart.mjs reads it
  cpc,                    \* "absent" | "reading" | "parsed" | "charted"
  lineCount,              \* generatePieChart.mjs line 42
  counts,                 \* line 41: the keys in insertion order, each with its count
  chart                   \* lines 62-68: Null, or the labels and values of the chart

ovars == << csvProfiles, xpc, xidx, xcustomer, results, csvFile, xanswers,
            chartLines, cpc, lineCount, counts, chart >>

vars == << fvars, evars, inFlight, ovars >>

\* line 34: the request of a segment page (Null: the first page)
SegmentRequest(c) == [api |-> "klaviyoSegment", cursor |-> c]

\* part_000 line 208: the customer search by email
CustomerRequest(email) == [api |-> "shopifyCustomers", email |-> email]

\* part_000 line 235: the last order of a customer
OrderRequest(customerId) == [api |-> "shopifyOrders", customer |-> customerId]

\* fetch(url) sends the request and returns its promise
IssueRequest(fl, r) == Append(fl, r)

\* (mutant) the promise is not awaited: the code goes on with the request out
AwaitResponse_Missing(fl) == fl

\* await fetch(url): the code goes on when the request issued last is answered
\* or has failed
AwaitResponse(fl) == SubSeq(fl, 1, Len(fl) - 1)

ToLowerCase(s) ==
  [i \in DOMAIN s |-> IF s[i] = "A" THEN "a" ELSE IF s[i] = "B" THEN "b" ELSE s[i]]

RECURSIVE TrimStart(_)
TrimStart(s) == IF s # <<>> /\ Head(s) = " " THEN TrimStart(Tail(s)) ELSE s

RECURSIVE TrimEnd(_)
TrimEnd(s) ==
  IF s # <<>> /\ s[Len(s)] = " " THEN TrimEnd(SubSeq(s, 1, Len(s) - 1)) ELSE s

Trim(s) == TrimEnd(TrimStart(s))

\* profile.attributes?.email?.toLowerCase().trim(); undefined and "" are
\* both falsy at line 57 and both are << >> here.
NormalizedEmail(p) ==
  IF "email" \in DOMAIN p THEN Trim(ToLowerCase(p.email)) ELSE <<>>

\* (mutant) the seenEmails test of line 57 left out
AddProfile_NoDedup(st, p) ==
  LET email == NormalizedEmail(p) IN
  IF email # <<>>
  THEN [profiles |-> Append(st.profiles, [email |-> email, profileId |-> p.id]),
        seen |-> st.seen \cup {email}]
  ELSE st

\* (mutant) unshift instead of push: a new profile goes to the front
AddProfile_Prepend(st, p) ==
  LET email == NormalizedEmail(p) IN
  IF email # <<>> /\ email \notin st.seen
  THEN [profiles |-> << [email |-> email, profileId |-> p.id] >> \o st.profiles,
        seen |-> st.seen \cup {email}]
  ELSE st

\* lines 56-64: one iteration of the for loop over json.data
AddProfile(st, p) ==
  LET email == NormalizedEmail(p) IN
  IF email # <<>> /\ email \notin st.seen
  THEN [profiles |-> Append(st.profiles, [email |-> email, profileId |-> p.id]),
        seen |-> st.seen \cup {email}]
  ELSE st

RECURSIVE ProcessData(_, _)
ProcessData(st, data) ==
  IF data = <<>> THEN st ELSE ProcessData(AddProfile(st, Head(data)), Tail(data))

\* (mutant) the whole list written, slice left out
Limited_NoSlice(ps, l) == ps

\* profiles.slice(0, limit)
Limited(ps, l) == SubSeq(ps, 1, Min(l, Len(ps)))

\* (mutant) the save placed before the page is merged
SnapshotContent_Stale(old, new, l) == SubSeq(old, 1, Min(l, Len(old)))

\* lines 71-72: what is written after a page: the list as it is after
\* the page (new) and not as it was before it (old)
SnapshotContent(old, new, l) == Limited(new, l)

Truthy(c) == c # Null /\ c # ""

\* line 26: the cursor parameter of the url; Null is the first page
UrlCursor(c) == IF Truthy(c) THEN c ELSE Null

\* (mutant) attempt <= maxRetries
RetryAllowed_Inclusive(a, m) == a <= m

\* (mutant) a do-while loop: the first request is issued unconditionally
RetryAllowed_DoWhile(a, m) == a = 0 \/ a < m

\* line 31: the condition of the retry loop
RetryAllowed(a, m) == a < m

\* lines 16-20: the parameters and the locals at entry; no snapshot yet
FetcherFresh ==
  /\ limit \in 0..MaxLimit
  /\ maxRetries \in 0..MaxRetriesBound
  /\ fpc = "start"
  /\ profiles = <<>>
  /\ seenEmails = {}
  /\ cursor = Null
  /\ page = 1
  /\ attempt = 0
  /\ json = NoJson
  /\ snapshot = <<>>
  /\ snapState = "absent"
  /\ delay = 0
  /\ reqCursor = Null
  /\ reqsThisPage = 0
  /\ pageEmails = {}
  /\ lastSave = "none"
  /\ abandoned = FALSE
  /\ dropped = FALSE
  /\ inFlight = <<>>

\* lines 24-33: the head of the outer loop, up to the first request of the
\* page (or past the inner loop when maxRetries = 0, lines 48-50).
LoopHead(ps, cur) ==
  IF Len(ps) < limit
  THEN IF RetryAllowed(0, maxRetries)
       THEN /\ fpc' = "request"
            /\ reqCursor' = UrlCursor(cur)
            /\ reqsThisPage' = 1
            /\ attempt' = 0
            /\ json' = NoJson
            /\ abandoned' = FALSE
            /\ inFlight' = IssueRequest(inFlight, SegmentRequest(UrlCursor(cur)))
       ELSE /\ fpc' = "done"
            /\ attempt' = 0
            /\ json' = NoJson
            /\ abandoned' = TRUE
            /\ UNCHANGED << reqCursor, reqsThisPage, inFlight >>
  ELSE /\ fpc' = "done"
       /\ UNCHANGED << reqCursor, reqsThisPage, attempt, json, abandoned, inFlight >>

FetchStart ==
  /\ fpc = "start"
  /\ LoopHead(profiles, cursor)
  /\ delay' = 0
  /\ UNCHANGED << limit, maxRetries, profiles, seenEmails, cursor, page,
                  snapshot, snapState, pageEmails, lastSave >>
  /\ UNCHANGED << evars, ovars, dropped >>

\* lines 41-45: fetch or res.json() threw, or the payload has no data array
FetchResponseFail ==
  /\ fpc = "request"
  /\ \E failure \in {"threw", "nullPayload", "noDataArray"} :
       \* a throw of fetch or res.json() leaves json as it was
       json' = CASE failure = "threw" -> json
                 [] failure = "nullPayload" -> NoJson
                 [] failure = "noDataArray" -> MalformedJson
  /\ attempt' = attempt + 1
  /\ delay' = BackoffUnitMs * (attempt + 1)
  /\ fpc' = "backoff"
  /\ inFlight' = AwaitResponse(inFlight)
  /\ UNCHANGED << limit, maxRetries, profiles, seenEmails, cursor, page, snapshot,
                  snapState, reqCursor, reqsThisPage, pageEmails, lastSave,
                  abandoned >>
  /\ UNCHANGED << evars, ovars, dropped >>

\* lines 31, 48-51: the backoff timer fired; retry or give the page up
FetchBackoffDone ==
  /\ fpc = "backoff"
  /\ delay' = 0
  /\ IF RetryAllowed(attempt, maxRetries)
     THEN /\ fpc' = "request"
          /\ reqsThisPage' = reqsThisPage + 1
          /\ inFlight' = IssueRequest(inFlight, SegmentRequest(reqCursor))
          /\ UNCHANGED abandoned
     ELSE /\ fpc' = "done"
          /\ abandoned' = TRUE
          /\ UNCHANGED << reqsThisPage, inFlight >>
  /\ UNCHANGED << limit, maxRetries, profiles, seenEmails, cursor, page, attempt,
                  json, snapshot, snapState, reqCursor, pageEmails, lastSave >>
  /\ UNCHANGED << evars, ovars, dropped >>

\* lines 70-76: fs.writeFileSync of the limited list inside try/catch.  The
\* write succeeds, or throws and is only logged: before the file was
\* opened (content unchanged) or after it was truncated (no valid JSON).
SaveOutcomes == {"ok", "failedUnchanged", "failedTruncated"}

SaveSnapshot(content, result) ==
  CASE result = "ok" ->
         /\ snapshot' = content
         /\ snapState' = "ok"
         /\ lastSave' = "ok"
    [] result = "failedUnchanged" ->
         /\ UNCHANGED << snapshot, snapState >>
         /\ lastSave' = "failed"
    [] result = "failedTruncated" ->
         /\ snapshot' = <<>>
         /\ snapState' = "corrupt"
         /\ lastSave' = "failed"

\* (mutant) the else branch of line 87 never taken
HasNextLink_Always(next) == TRUE

\* lines 79-90: does the loop go on to another page after this payload
HasNextLink(next) == next.kind # "none"

\* lines 81-82: new URL(next).searchParams.get("page[cursor]"); "fail" is
\* the throw of new URL
ParsedCursor(next) == IF next.kind = "bad" THEN "fail" ELSE next.cursor

\* lines 34-40, 48-92: a payload with a data array arrived; the page is
\* processed, the snapshot saved and the next cursor parsed
FetchResponseOk ==
  /\ fpc = "request"
  /\ page <= MaxPages
  /\ \E data \in PageData, next \in Links, result \in SaveOutcomes :
       LET st == ProcessData([profiles |-> profiles, seen |-> seenEmails], data) IN
       /\ inFlight' = AwaitResponse(inFlight)
       /\ json' = OkJson(next)
       /\ profiles' = st.profiles
       /\ seenEmails' = st.seen
       /\ pageEmails' = pageEmails \cup ({ NormalizedEmail(data[i]) : i \in DOMAIN data } \ {<<>>})
       /\ dropped' = (dropped \/ Len(st.profiles) - Len(profiles) < Cardinality({ i \in DOMAIN data : NormalizedEmail(data[i]) # <<>> }))
       /\ page' = page + 1
       /\ SaveSnapshot(SnapshotContent(profiles, st.profiles, limit), result)
       /\ IF HasNextLink(next)
          THEN IF ParsedCursor(next) = "fail"
               THEN /\ fpc' = "done"
                    /\ delay' = 0
                    /\ UNCHANGED cursor
               ELSE /\ cursor' = ParsedCursor(next)
                    /\ fpc' = "throttle"
                    /\ delay' = ThrottleMs
          ELSE /\ fpc' = "done"
               /\ delay' = 0
               /\ UNCHANGED cursor
  /\ UNCHANGED << limit, maxRetries, attempt, reqCursor, reqsThisPage,
                  abandoned >>
  /\ UNCHANGED << evars, ovars >>

\* line 92 then lines 24-33: the throttle timer fired
FetchThrottleDone ==
  /\ fpc = "throttle"
  /\ LoopHead(profiles, cursor)
  /\ delay' = 0
  /\ UNCHANGED << limit, maxRetries, profiles, seenEmails, cursor, page,
                  snapshot, snapState, pageEmails, lastSave >>
  /\ UNCHANGED << evars, ovars, dropped >>

\* the process is killed while it waits on a request or a timer
FetchInterrupt ==
  /\ fpc \in {"request", "backoff", "throttle"}
  /\ fpc' = "interrupted"
  /\ inFlight' = <<>>
  /\ UNCHANGED << limit, maxRetries, profiles, seenEmails, cursor, page, attempt,
                  json, snapshot, snapState, delay, reqCursor, reqsThisPage, pageEmails, lastSave, abandoned >>
  /\ UNCHANGED << evars, ovars, dropped >>

FetchNext ==
  \/ FetchStart
  \/ FetchResponseFail
  \/ FetchBackoffDone
  \/ FetchResponseOk
  \/ FetchThrottleDone
  \/ FetchInterrupt

\* ------------------------------------------------------------- enricher
MaxRuns == 2            \* enricher runs in one behaviour
Max429 == 2             \* 429 answers in a row to one lookup

RateLimitDelayMs == 1000

\* klaviyo_profiles.json as the fetcher leaves it: profiles with pairwise
\* different, normalized, non-empty emails
SnapshotProfiles ==
  { [email |-> <<"a">>, profileId |-> 1],
    [email |-> <<"b">>, profileId |-> 3],
    [email |-> <<"c">>, profileId |-> 7] }

FetchedLists ==
  { ps \in UNION { [1..k -> SnapshotProfiles] : k \in 0..Cardinality(SnapshotProfiles) } :
      \A m \in DOMAIN ps, n \in DOMAIN ps : ps[m].email = ps[n].email => m = n }

\* what getMostRecentOrder returns for a customer with an order
Orders == { [title |-> "A", sku |-> "1", orderDate |-> "d1"],
            [title |-> "B", sku |-> "2", orderDate |-> "d2"] }

CustomerId == "cust1"

\* lines 259 and 185: JSON.stringify(profile) + '\n' makes a line that
\* JSON.parse reads back; any other line makes JSON.parse throw
StringifyLine(obj) == [json |-> TRUE, obj |-> obj]

ParsesAsJson(line) == line.json

\* the emails of the lines that are objects with an email field
LogEmails(lines) ==
  { lines[i].obj.email :
      i \in { j \in DOMAIN lines : lines[j].json /\ "email" \in DOMAIN lines[j].obj } }

\* A line that is no JSON: garbage, or a record cut short by a kill
InvalidLines == { [json |-> FALSE, text |-> "garbage"],
                  [json |-> FALSE, text |-> "{\"email\":\"a"] }

\* What enriched_profiles2.ndjson can hold, line by line: records of the
\* enricher, JSON without an email field or with an empty one, JSON that
\* is no object, and lines that are no JSON
LogLines ==
  { StringifyLine([profileId |-> 1, email |-> <<"a">>, mostRecentOrder |-> o]) : o \in Orders }
  \cup { StringifyLine([profileId |-> 3, email |-> <<"b">>,
                        mostRecentOrder |-> [title |-> "A", sku |-> "1", orderDate |-> "d1"]]),
         StringifyLine([profileId |-> 5]),
         StringifyLine([profileId |-> 5, email |-> <<>>]),
         StringifyLine([scalar |-> "null"]) }
  \cup InvalidLines

MaxLogLines == 3        \* lines of the log the loader is given

\* (mutant) no try/catch around JSON.parse: the first invalid line ends the
\* load with what was read before it
RECURSIVE LoadProcessedEmailsFromNDJSON_AbortOnInvalid(_)
LoadProcessedEmailsFromNDJSON_AbortOnInvalid(lines) ==
  IF lines = <<>> \/ ~ParsesAsJson(Head(lines))
  THEN {}
  ELSE (IF "email" \in DOMAIN Head(lines).obj /\ Head(lines).obj.email # <<>>
        THEN {Head(lines).obj.email} ELSE {})
       \cup LoadProcessedEmailsFromNDJSON_AbortOnInvalid(Tail(lines))

\* (mutant) the log is not read back
LoadProcessedEmailsFromNDJSON_Empty(lines) == {}

\* lines 177-195
LoadProcessedEmailsFromNDJSON(lines) ==
  { lines[i].obj.email :
      i \in { j \in DOMAIN lines :
                /\ ParsesAsJson(lines[j])
                /\ "email" \in DOMAIN lines[j].obj
                /\ lines[j].obj.email # <<>> } }

\* (mutant) the test of line 271 never true
AlreadyEnriched_Never(pe, email) == FALSE

\* line 271: processedEmails.includes(email)
AlreadyEnriched(pe, email) == email \in pe

\* lines 268-275: the position of the first profile from i on that is not
\* skipped as already enriched (Len(ps) + 1: none)
RECURSIVE NextToEnrich(_, _, _)
NextToEnrich(ps, pe, i) ==
  IF i <= Len(ps) /\ AlreadyEnriched(pe, ps[i].email)
  THEN NextToEnrich(ps, pe, i + 1)
  ELSE i

\* (mutant) processedCount++ left out
Counted_Forgot(c) == c

\* lines 272, 283, 290, 304, 310: processedCount++
Counted(c) == c + 1

RECURSIVE CountedTimes(_, _)
CountedTimes(c, n) == IF n = 0 THEN c ELSE CountedTimes(Counted(c), n - 1)

Repeat(x, n) == [k \in 1..n |-> x]

\* The for loop of enrichKlaviyoProfiles from position i on, with count
\* profiles counted and outc their outcomes, up to its next await: the
\* customer lookup of the first profile it does not skip, or the return.
ContinueLoop(ps, pe, i, count, outc, fl) ==
  LET j == NextToEnrich(ps, pe, i) IN
  /\ idx' = j
  /\ processedCount' = CountedTimes(count, j - i)
  /\ outcome' = outc \o Repeat("alreadyEnriched", j - i)
  /\ customer' = Null
  /\ edelay' = 0
  /\ epc' = IF j <= Len(ps) THEN "customerReq" ELSE "returned"
  /\ inFlight' = IF j <= Len(ps)
                 THEN IssueRequest(fl, CustomerRequest(ps[j].email))
                 ELSE fl

\* The export scripts are not run
ExportersAbsent ==
  /\ csvProfiles = <<>>
  /\ xpc = "absent"
  /\ xidx = 1
  /\ xcustomer = Null
  /\ results = <<>>
  /\ csvFile = Null
  /\ xanswers = <<>>
  /\ chartLines = <<>>
  /\ cpc = "absent"
  /\ lineCount = 0
  /\ counts = <<>>
  /\ chart = Null

EnricherAbsent ==
  /\ epc = "idle"
  /\ processedEmails = {}
  /\ inProfiles = <<>>
  /\ idx = 1
  /\ processedCount = 0
  /\ enrichedProfiles = <<>>
  /\ customer = Null
  /\ log = <<>>
  /\ pending = <<>>
  /\ edelay = 0
  /\ runs = 0
  /\ n429 = 0
  /\ outcome = <<>>
  /\ startLogEmails = {}
  /\ everSkipped = {}

\* line 197, then main (lines 318-323) up to the first await of the loop
EnrichStart ==
  /\ epc = "idle"
  /\ runs < MaxRuns
  /\ snapState = "ok"
  /\ runs' = runs + 1
  /\ processedEmails' = LoadProcessedEmailsFromNDJSON(log)
  /\ startLogEmails' = LogEmails(log)
  /\ inProfiles' = snapshot
  /\ enrichedProfiles' = <<>>
  /\ ContinueLoop(snapshot, LoadProcessedEmailsFromNDJSON(log), 1, 0, <<>>, inFlight)
  /\ n429' = 0
  /\ UNCHANGED << log, pending >>
  /\ UNCHANGED << fvars, ovars, everSkipped >>

\* lines 320, 326-328: klaviyo_profiles.json is missing or is no JSON;
\* main logs the error and the process ends
EnrichMainError ==
  /\ epc = "idle"
  /\ runs < MaxRuns
  /\ snapState # "ok"
  /\ runs' = runs + 1
  /\ processedEmails' = LoadProcessedEmailsFromNDJSON(log)
  /\ startLogEmails' = LogEmails(log)
  /\ UNCHANGED << epc, inProfiles, idx, processedCount, enrichedProfiles, customer,
                  log, pending, edelay, n429, outcome >>
  /\ UNCHANGED << fvars, ovars, everSkipped, inFlight >>

\* line 214: the second passed; the same lookup is issued again
EnrichRateWaitDone ==
  /\ epc = "rateWait"
  /\ epc' = "customerReq"
  /\ inFlight' = IssueRequest(inFlight, CustomerRequest(inProfiles[idx].email))
  /\ edelay' = 0
  /\ UNCHANGED << processedEmails, inProfiles, idx, processedCount, enrichedProfiles,
                  customer, log, pending, runs, n429, outcome, startLogEmails >>
  /\ UNCHANGED << fvars, ovars, everSkipped >>

\* lines 217-220, 280, 287: a customer is found; its order is looked up
EnrichCustomerFound ==
  /\ epc = "customerReq"
  /\ customer' = CustomerId
  /\ epc' = "orderReq"
  /\ inFlight' = IssueRequest(AwaitResponse(inFlight), OrderRequest(CustomerId))
  /\ UNCHANGED << processedEmails, inProfiles, idx, processedCount, enrichedProfiles,
                  log, pending, edelay, runs, n429, outcome, startLogEmails >>
  /\ UNCHANGED << fvars, ovars, everSkipped >>

\* (mutant) the failure of one profile ends the loop
SkipProfile_Abort(why) ==
  /\ processedCount' = Counted(processedCount)
  /\ outcome' = Append(outcome, why)
  /\ epc' = "returned"
  /\ inFlight' = AwaitResponse(inFlight)
  /\ n429' = 0
  /\ UNCHANGED << idx, customer, edelay >>
  /\ UNCHANGED << processedEmails, inProfiles, enrichedProfiles, log, pending, runs,
                  startLogEmails >>
  /\ UNCHANGED << fvars, ovars, everSkipped >>

\* (mutant) a skipped profile is remembered by a line of its own in the log
SkipProfile_Tracked(why) ==
  /\ ContinueLoop(inProfiles, processedEmails, idx + 1, Counted(processedCount),
                  Append(outcome, why), AwaitResponse(inFlight))
  /\ n429' = 0
  /\ log' = Append(log, StringifyLine([email |-> inProfiles[idx].email]))
  /\ everSkipped' = everSkipped \cup {inProfiles[idx].email}
  /\ UNCHANGED << processedEmails, inProfiles, enrichedProfiles, pending, runs,
                  startLogEmails >>
  /\ UNCHANGED << fvars, ovars >>

\* lines 281-285, 288-292: the profile is skipped, counted and not written
SkipProfile(why) ==
  /\ ContinueLoop(inProfiles, processedEmails, idx + 1, Counted(processedCount),
                  Append(outcome, why), AwaitResponse(inFlight))
  /\ n429' = 0
  /\ UNCHANGED << processedEmails, inProfiles, enrichedProfiles, log, pending, runs,
                  startLogEmails >>
  /\ everSkipped' = everSkipped \cup {inProfiles[idx].email}
  /\ UNCHANGED << fvars, ovars >>

\* (mutant) a 429 answer treated as a lookup without a match
EnrichCustomer429_Skip ==
  /\ epc = "customerReq"
  /\ n429 < Max429
  /\ n429' = n429 + 1
  /\ ContinueLoop(inProfiles, processedEmails, idx + 1, Counted(processedCount),
                  Append(outcome, "noCustomer"), AwaitResponse(inFlight))
  /\ UNCHANGED << processedEmails, inProfiles, enrichedProfiles, log, pending, runs,
                  startLogEmails >>
  /\ UNCHANGED << fvars, ovars, everSkipped >>

\* lines 211-215: the customer lookup is answered 429
EnrichCustomer429 ==
  /\ epc = "customerReq"
  /\ n429 < Max429
  /\ n429' = n429 + 1
  /\ epc' = "rateWait"
  /\ inFlight' = AwaitResponse(inFlight)
  /\ edelay' = RateLimitDelayMs
  /\ UNCHANGED << processedEmails, inProfiles, idx, processedCount, enrichedProfiles,
                  customer, log, pending, runs, outcome, startLogEmails >>
  /\ UNCHANGED << fvars, ovars, everSkipped >>

\* lines 221-228, 281-285: no customer matches, or the lookup threw
EnrichCustomerMissing ==
  /\ epc = "customerReq"
  /\ \E why \in {"noCustomer", "lookupError"} : SkipProfile(why)

\* lines 239-253, 288-292: the customer has no order, or the lookup threw
EnrichOrderMissing ==
  /\ epc = "orderReq"
  /\ \E why \in {"noOrder", "orderError"} : SkipProfile(why)

\* lines 257-261: the line is handed to a new write stream; nothing is on
\* disk when the function returns
SaveEnrichedProfileIncrementally(p, pend) == Append(pend, StringifyLine(p))

\* lines 239-247, 294-307: the order is found and the record saved
EnrichOrderFound ==
  /\ epc = "orderReq"
  /\ \E order \in Orders :
       LET enrichedProfile ==
             [profileId |-> inProfiles[idx].profileId,
              email |-> inProfiles[idx].email,
              mostRecentOrder |-> order] IN
       /\ pending' = SaveEnrichedProfileIncrementally(enrichedProfile, pending)
       /\ enrichedProfiles' = Append(enrichedProfiles, enrichedProfile)
       /\ ContinueLoop(inProfiles, processedEmails, idx + 1, Counted(processedCount),
                       Append(outcome, "written"), AwaitResponse(inFlight))
  /\ n429' = 0
  /\ UNCHANGED << processedEmails, inProfiles, log, runs, startLogEmails >>
  /\ UNCHANGED << fvars, ovars, everSkipped >>

RemoveAt(q, i) == SubSeq(q, 1, i - 1) \o SubSeq(q, i + 1, Len(q))

\* a write stream opened its file, appended its line and closed; the
\* streams are independent of each other, so any of them may be first
EnrichFlush ==
  /\ epc # "idle"
  /\ \E i \in DOMAIN pending :
       /\ log' = Append(log, pending[i])
       /\ pending' = RemoveAt(pending, i)
  /\ UNCHANGED << epc, processedEmails, inProfiles, idx, processedCount,
                  enrichedProfiles, customer, edelay, runs, n429, outcome,
                  startLogEmails >>
  /\ UNCHANGED << fvars, ovars, everSkipped, inFlight >>

\* main returned and every stream has closed: the process ends
EnrichExit ==
  /\ epc = "returned"
  /\ pending = <<>>
  /\ epc' = "idle"
  /\ UNCHANGED << processedEmails, inProfiles, idx, processedCount, enrichedProfiles,
                  customer, log, pending, edelay, runs, n429, outcome, startLogEmails >>
  /\ UNCHANGED << fvars, ovars, everSkipped, inFlight >>

\* the process is killed: what its streams had not written is lost
EnrichInterrupt ==
  /\ epc # "idle"
  /\ epc' = "idle"
  /\ inFlight' = <<>>
  /\ pending' = <<>>
  /\ edelay' = 0
  /\ UNCHANGED << processedEmails, inProfiles, idx, processedCount, enrichedProfiles,
                  customer, log, runs, n429, outcome, startLogEmails >>
  /\ UNCHANGED << fvars, ovars, everSkipped >>

\* (mutant) the retry gives up after Max429 answers 429 and the profile is
\* skipped as not found
EnrichCustomer429Unbounded_GiveUp ==
  /\ epc = "customerReq"
  /\ IF n429 < Max429
     THEN /\ n429' = n429 + 1
          /\ epc' = "rateWait"
          /\ edelay' = RateLimitDelayMs
          /\ inFlight' = AwaitResponse(inFlight)
          /\ UNCHANGED << idx, processedCount, customer, outcome, everSkipped >>
     ELSE /\ ContinueLoop(inProfiles, processedEmails, idx + 1, Counted(processedCount),
                          Append(outcome, "noCustomer"), AwaitResponse(inFlight))
          /\ n429' = 0
          /\ everSkipped' = everSkipped \cup {inProfiles[idx].email}
  /\ UNCHANGED << processedEmails, inProfiles, enrichedProfiles, log, pending, runs,
                  startLogEmails >>
  /\ UNCHANGED << fvars, ovars >>

\* lines 211-215 with no cap on the answers: the code keeps no count of the
\* 429 answers, so the lookup can be answered 429 whatever came before;
\* n429 stops counting at Max429
EnrichCustomer429Unbounded ==
  /\ epc = "customerReq"
  /\ n429' = IF n429 < Max429 THEN n429 + 1 ELSE n429
  /\ epc' = "rateWait"
  /\ edelay' = RateLimitDelayMs
  /\ inFlight' = AwaitResponse(inFlight)
  /\ UNCHANGED << idx, processedCount, customer, outcome, everSkipped >>
  /\ UNCHANGED << processedEmails, inProfiles, enrichedProfiles, log, pending, runs,
                  startLogEmails >>
  /\ UNCHANGED << fvars, ovars >>

\* One run of the enricher that is not killed, with any number of 429
\* answers.
EnrichRunNext ==
  \/ EnrichStart
  \/ EnrichMainError
  \/ EnrichCustomer429Unbounded
  \/ EnrichRateWaitDone
  \/ EnrichCustomerFound
  \/ EnrichCustomerMissing
  \/ EnrichOrderMissing
  \/ EnrichOrderFound
  \/ EnrichFlush

\* What the runtime guarantees to a run that is not killed: a timer that
\* was set fires, a request that was sent is answered or fails, and a write
\* stream that was given a line writes it.
EnrichRunFairness ==
  /\ WF_vars(EnrichRateWaitDone)
  /\ WF_vars(EnrichCustomer429Unbounded \/ EnrichCustomerFound \/ EnrichCustomerMissing)
  /\ WF_vars(EnrichOrderFound \/ EnrichOrderMissing)
  /\ WF_vars(EnrichFlush)

EnrichNext ==
  \/ EnrichStart
  \/ EnrichMainError
  \/ EnrichCustomer429
  \/ EnrichRateWaitDone
  \/ EnrichCustomerFound
  \/ EnrichCustomerMissing
  \/ EnrichOrderMissing
  \/ EnrichOrderFound
  \/ EnrichFlush
  \/ EnrichExit
  \/ EnrichInterrupt

\* The fetcher has run and its process is gone; what it left is the
\* snapshot file, or none.
FetcherMemoryGone ==
  /\ limit = 0
  /\ maxRetries = 0
  /\ fpc = "done"
  /\ profiles = <<>>
  /\ seenEmails = {}
  /\ cursor = Null
  /\ page = 1
  /\ attempt = 0
  /\ json = NoJson
  /\ delay = 0
  /\ reqCursor = Null
  /\ reqsThisPage = 0
  /\ pageEmails = {}
  /\ lastSave = "none"
  /\ abandoned = FALSE
  /\ dropped = FALSE

FetcherGone ==
  /\ FetcherMemoryGone
  /\ inFlight = <<>>
  /\ \/ snapState = "ok" /\ snapshot \in FetchedLists
     \/ snapState \in {"absent", "corrupt"} /\ snapshot = <<>>

\* The fetcher's process ends, by its return or by the kill: its memory is
\* gone and klaviyo_profiles.json stays as it last wrote it.
FetchExit ==
  /\ fpc \in {"done", "interrupted"}
  /\ ~FetcherMemoryGone
  /\ limit' = 0
  /\ maxRetries' = 0
  /\ fpc' = "done"
  /\ profiles' = <<>>
  /\ seenEmails' = {}
  /\ cursor' = Null
  /\ page' = 1
  /\ attempt' = 0
  /\ json' = NoJson
  /\ delay' = 0
  /\ reqCursor' = Null
  /\ reqsThisPage' = 0
  /\ pageEmails' = {}
  /\ lastSave' = "none"
  /\ abandoned' = FALSE
  /\ dropped' = FALSE
  /\ UNCHANGED << snapshot, snapState, inFlight >>
  /\ UNCHANGED << evars, ovars >>

EnrichInit == FetcherGone /\ EnricherAbsent /\ ExportersAbsent

\* ----------------------------------------------------- the csv script
MaxCsvProfiles == 3     \* profiles given to enrichProfilesWithShopifyOrders

\* part_000 lines 37-40: email is profile.attributes?.email, which may be
\* missing (Null) or empty
CsvInputProfiles ==
  { [email |-> <<"a">>, profileId |-> 1],
    [email |-> <<"b">>, profileId |-> 3],
    [email |-> <<>>, profileId |-> 4],
    [profileId |-> 5] }

\* part_000 lines 58-60: json.customers[0], with or without its names
Customers ==
  { [id |-> "cust1", first_name |-> "Ann", last_name |-> "Lee"],
    [id |-> "cust2", first_name |-> "", last_name |-> "Lee"],
    [id |-> "cust3"] }

SegmentName == "Segment"

\* part_000 lines 90-92: const { email } = profile; !email
NoEmail(profile) == "email" \notin DOMAIN profile \/ profile.email = <<>>

\* part_000 line 82: getMostRecentOrder returns null
NoOrder == [found |-> FALSE]

\* customer.first_name || "N/A"
FieldOr(r, f, default) == IF f \in DOMAIN r /\ r[f] # "" THEN r[f] ELSE default

\* part_000 lines 105-113: the row of a profile with a customer
CsvRow(email, cust, order) ==
  [email |-> email,
   firstName |-> FieldOr(cust, "first_name", "N/A"),
   lastName |-> FieldOr(cust, "last_name", "N/A"),
   segmentName |-> SegmentName,
   productTitle |-> FieldOr(order, "title", "None"),
   sku |-> FieldOr(order, "sku", "None"),
   orderDate |-> FieldOr(order, "orderDate", "None")]

\* (mutant) a customer without an order is skipped, as the enricher does
PushResult_SkipNoOrder(rs, email, cust, order) ==
  IF order = NoOrder THEN rs ELSE Append(rs, CsvRow(email, cust, order))

\* part_000 line 105: results.push
PushResult(rs, email, cust, order) == Append(rs, CsvRow(email, cust, order))

\* part_000 lines 135-149: the records in the order of the header
WriteRecords(rs) ==
  [i \in DOMAIN rs |->
     << rs[i].email, rs[i].firstName, rs[i].lastName, rs[i].segmentName,
        rs[i].productTitle, rs[i].sku, rs[i].orderDate >>]

\* part_000 lines 89-95: the first profile from i on that has an email
RECURSIVE NextWithEmail(_, _)
NextWithEmail(ps, i) ==
  IF i <= Len(ps) /\ NoEmail(ps[i]) THEN NextWithEmail(ps, i + 1) ELSE i

\* part_000 lines 89-97, 116, 127-149: the for loop from position i on with
\* the rows rs, up to its next await: the customer lookup of the next
\* profile with an email, or the end of the loop and of run
CsvLoop(i, rs, fl) ==
  LET j == NextWithEmail(csvProfiles, i) IN
  /\ xidx' = j
  /\ results' = rs
  /\ xcustomer' = Null
  /\ IF j <= Len(csvProfiles)
     THEN /\ xpc' = "customerReq"
          /\ inFlight' = IssueRequest(fl, CustomerRequest(csvProfiles[j].email))
          /\ UNCHANGED csvFile
     ELSE /\ inFlight' = fl
          /\ IF rs = <<>>
             THEN xpc' = "noData" /\ UNCHANGED csvFile
             ELSE xpc' = "written" /\ csvFile' = WriteRecords(rs)

CsvUnchangedOthers ==
  UNCHANGED << fvars, evars, chartLines, cpc, lineCount, counts, chart >>

\* part_000 lines 120-127: run has its profiles and the segment name
CsvStart ==
  /\ xpc = "start"
  /\ IF csvProfiles = <<>>
     THEN /\ xpc' = "noData"
          /\ UNCHANGED << xidx, results, xcustomer, csvFile, inFlight >>
     ELSE CsvLoop(1, <<>>, inFlight)
  /\ UNCHANGED << csvProfiles, xanswers >>
  /\ CsvUnchangedOthers

\* part_000 lines 58-59, 97, 103: a customer is found; its orders are asked for
CsvCustomerFound ==
  /\ xpc = "customerReq"
  /\ \E cust \in Customers :
       /\ xcustomer' = cust
       /\ inFlight' = IssueRequest(AwaitResponse(inFlight), OrderRequest(cust.id))
  /\ xpc' = "orderReq"
  /\ UNCHANGED << csvProfiles, xidx, results, csvFile, xanswers >>
  /\ CsvUnchangedOthers

\* part_000 lines 62, 98-101: no customer matches; the profile gives no row
CsvCustomerMissing ==
  /\ xpc = "customerReq"
  /\ CsvLoop(xidx + 1, results, AwaitResponse(inFlight))
  /\ UNCHANGED << csvProfiles, xanswers >>
  /\ CsvUnchangedOthers

\* part_000 lines 69-82, 103-113: the orders arrive, or none; the row is pushed
CsvOrderAnswer ==
  /\ xpc = "orderReq"
  /\ \E order \in Orders \cup {NoOrder} :
       /\ xanswers' = Append(xanswers, [email |-> csvProfiles[xidx].email, order |-> order])
       /\ CsvLoop(xidx + 1,
                  PushResult(results, csvProfiles[xidx].email, xcustomer, order),
                  AwaitResponse(inFlight))
  /\ UNCHANGED csvProfiles
  /\ CsvUnchangedOthers

\* part_000 lines 55-56, 68-69, 157: a lookup throws; nothing catches it
\* before run().catch, and no file is written
CsvLookupThrows ==
  /\ xpc \in {"customerReq", "orderReq"}
  /\ xpc' = "failed"
  /\ inFlight' = AwaitResponse(inFlight)
  /\ UNCHANGED << csvProfiles, xidx, xcustomer, results, csvFile, xanswers >>
  /\ CsvUnchangedOthers

CsvNext ==
  \/ CsvStart
  \/ CsvCustomerFound
  \/ CsvCustomerMissing
  \/ CsvOrderAnswer
  \/ CsvLookupThrows

\* Neither the fetcher nor the enricher is run, and no file of theirs exists
PipelineAbsent ==
  /\ FetcherMemoryGone
  /\ snapshot = <<>>
  /\ snapState = "absent"
  /\ inFlight = <<>>
  /\ EnricherAbsent

CsvInit ==
  /\ PipelineAbsent
  /\ csvProfiles \in UNION { [1..k -> CsvInputProfiles] : k \in 0..MaxCsvProfiles }
  /\ xpc = "start"
  /\ xidx = 1
  /\ xcustomer = Null
  /\ results = <<>>
  /\ csvFile = Null
  /\ xanswers = <<>>
  /\ chartLines = <<>>
  /\ cpc = "absent"
  /\ lineCount = 0
  /\ counts = <<>>
  /\ chart = Null

\* ---------------------------------------------------- the chart script
MAX_PRODUCTS == 10

MaxChartTail == 2       \* lines of the log drawn freely
MaxFillers == 11        \* further products of the log, one record each

\* A title or a sku is the sequence of its parts, so that the text of a key
\* is the concatenation the template literal makes.
ChartProducts ==
  { [title |-> <<"A">>, sku |-> <<"1">>],
    [title |-> <<"B">>, sku |-> <<"2">>],
    [title |-> <<"A">>, sku |-> <<"1", ")", " (SKU: ", "2">>],
    [title |-> <<"A", " (SKU: ", "1", ")">>, sku |-> <<"2">>],
    [title |-> <<>>, sku |-> <<"1">>] }

ChartRecord(order) ==
  StringifyLine([profileId |-> 1, email |-> <<"a">>, mostRecentOrder |-> order])

\* a line of blanks, or an empty one
BlankLines == { [json |-> FALSE, text |-> " "] }

\* What the file can hold, line by line: records with an order, a record
\* without one, a line that is no JSON and a blank line
ChartLineKinds ==
  { ChartRecord(o) : o \in ChartProducts }
  \cup { StringifyLine([profileId |-> 5, email |-> <<"b">>]),
         [json |-> FALSE, text |-> "garbage"] }
  \cup BlankLines

FillerProduct(k) == [title |-> Repeat("P", k), sku |-> <<"0">>]

Fillers(n) == [k \in 1..n |-> ChartRecord(FillerProduct(k))]

\* the example of the specification: A x 3 and B x 1
ExampleLogs ==
  LET a == ChartRecord([title |-> <<"A">>, sku |-> <<"1">>])
      b == ChartRecord([title |-> <<"B">>, sku |-> <<"2">>]) IN
  { << a, a, a, b >>, << b, a, a, a >> }

ChartLogs ==
  LET tails == UNION { [1..k -> ChartLineKinds] : k \in 0..MaxChartTail } IN
  { t \o Fillers(n) : t \in tails, n \in 0..MaxFillers }
  \cup { Fillers(n) \o t : t \in tails, n \in 0..MaxFillers }
  \cup ExampleLogs

\* generatePieChart.mjs line 46: !line.trim()
IsBlank(line) == line \in BlankLines

\* line 51: order?.title && order?.sku
HasTitleAndSku(line) ==
  /\ ParsesAsJson(line)
  /\ "mostRecentOrder" \in DOMAIN line.obj
  /\ line.obj.mostRecentOrder.title # <<>>
  /\ line.obj.mostRecentOrder.sku # <<>>

\* line 52: `${order.title} (SKU: ${order.sku})`
FormatKey(order) == order.title \o << " (SKU: " >> \o order.sku \o << ")" >>

\* (mutant) counts[key] = 1
AddCount_NoIncrement(cs, key) ==
  IF \E i \in DOMAIN cs : cs[i].key = key
  THEN [i \in DOMAIN cs |-> IF cs[i].key = key THEN [key |-> key, n |-> 1] ELSE cs[i]]
  ELSE Append(cs, [key |-> key, n |-> 1])

\* line 53: counts[key] = (counts[key] || 0) + 1; a new key is the last
\* property of the object
AddCount(cs, key) ==
  IF \E i \in DOMAIN cs : cs[i].key = key
  THEN [i \in DOMAIN cs |-> IF cs[i].key = key THEN [key |-> key, n |-> cs[i].n + 1] ELSE cs[i]]
  ELSE Append(cs, [key |-> key, n |-> 1])

\* lines 44-55: one iteration of the for await loop
ProcessLine(cs, line) ==
  IF ~IsBlank(line) /\ HasTitleAndSku(line)
  THEN AddCount(cs, FormatKey(line.obj.mostRecentOrder))
  ELSE cs

\* Array.prototype.sort with (a, b) => b[1] - a[1]: stable, higher counts
\* first; e goes behind the entries that are not smaller
InsertDesc(sorted, e) ==
  LET before == Cardinality({ i \in DOMAIN sorted : sorted[i].n >= e.n }) IN
  SubSeq(sorted, 1, before) \o << e >> \o SubSeq(sorted, before + 1, Len(sorted))

RECURSIVE SortDesc(_)
SortDesc(cs) ==
  IF cs = <<>> THEN <<>>
  ELSE InsertDesc(SortDesc(SubSeq(cs, 1, Len(cs) - 1)), cs[Len(cs)])

\* lines 63-68: the entries sorted and cut, then labels and values
CreatePieChart(cs) ==
  LET sorted == SubSeq(SortDesc(cs), 1, Min(MAX_PRODUCTS, Len(cs))) IN
  [labels |-> [i \in DOMAIN sorted |-> sorted[i].key],
   values |-> [i \in DOMAIN sorted |-> sorted[i].n]]

ChartUnchangedOthers ==
  UNCHANGED << fvars, evars, inFlight, csvProfiles, xpc, xidx, xcustomer, results,
               csvFile, xanswers >>

\* lines 43-55: readline hands over the next line
ChartReadLine ==
  /\ cpc = "reading"
  /\ lineCount < Len(chartLines)
  /\ lineCount' = lineCount + 1
  /\ counts' = ProcessLine(counts, chartLines[lineCount + 1])
  /\ UNCHANGED << chartLines, cpc, chart >>
  /\ ChartUnchangedOthers

\* lines 57-58, 148: the file is read to its end; processNDJSON returns
ChartEndOfFile ==
  /\ cpc = "reading"
  /\ lineCount = Len(chartLines)
  /\ cpc' = "parsed"
  /\ UNCHANGED << chartLines, lineCount, counts, chart >>
  /\ ChartUnchangedOthers

\* lines 62-68, 151: createPieChart
ChartCreate ==
  /\ cpc = "parsed"
  /\ chart' = CreatePieChart(counts)
  /\ cpc' = "charted"
  /\ UNCHANGED << chartLines, lineCount, counts >>
  /\ ChartUnchangedOthers

ChartNext ==
  \/ ChartReadLine
  \/ ChartEndOfFile
  \/ ChartCreate

ChartInit ==
  /\ PipelineAbsent
  /\ csvProfiles = <<>>
  /\ xpc = "absent"
  /\ xidx = 1
  /\ xcustomer = Null
  /\ results = <<>>
  /\ csvFile = Null
  /\ xanswers = <<>>
  /\ chartLines \in ChartLogs
  /\ cpc = "reading"
  /\ lineCount = 0
  /\ counts = <<>>
  /\ chart = Null

\* ------------------------------------------------------- specifications
FetchInit == FetcherFresh /\ EnricherAbsent /\ ExportersAbsent

SpecFetch == FetchInit /\ [][FetchNext]_vars

SpecEnrich == EnrichInit /\ [][EnrichNext]_vars

\* The loader alone (line 197, run when the module is loaded), on any log
LoadInit ==
  /\ FetcherGone
  /\ epc = "idle"
  /\ processedEmails = {}
  /\ inProfiles = <<>>
  /\ idx = 1
  /\ processedCount = 0
  /\ enrichedProfiles = <<>>
  /\ customer = Null
  /\ log \in UNION { [1..k -> LogLines] : k \in 0..MaxLogLines }
  /\ pending = <<>>
  /\ edelay = 0
  /\ runs = 0
  /\ n429 = 0
  /\ outcome = <<>>
  /\ startLogEmails = {}
  /\ everSkipped = {}
  /\ ExportersAbsent

LoadNext == EnrichStart \/ EnrichMainError

SpecLoad == LoadInit /\ [][LoadNext]_vars

SpecEnrichRun == EnrichInit /\ [][EnrichRunNext]_vars /\ EnrichRunFairness

SpecCsv == CsvInit /\ [][CsvNext]_vars

SpecChart == ChartInit /\ [][ChartNext]_vars

\* A pipeline run: the fetcher, then, once its process has ended, the
\* enricher on the snapshot it left.
PipelineNext ==
  \/ FetchNext
  \/ FetchExit
  \/ FetcherMemoryGone /\ EnrichNext

SpecPipeline == FetchInit /\ [][PipelineNext]_vars

\* --------------------------------------------------------------- claims
Range(q) == { q[i] : i \in DOMAIN q }

EmailsOf(q) == { q[i].email : i \in DOMAIN q }

\* the first n elements of ps, or all of ps when it has fewer
Prefix(ps, n) == [i \in 1..(IF n < Len(ps) THEN n ELSE Len(ps)) |-> ps[i]]

\* lowercase, no surrounding whitespace, not empty
IsNormalized(e) ==
  /\ e # <<>>
  /\ \A i \in DOMAIN e : e[i] \notin {"A", "B"}
  /\ e[1] # " "
  /\ e[Len(e)] # " "

RecordEmails(lines) == [i \in DOMAIN lines |-> lines[i].obj.email]

NoRepeat(q) == \A i \in DOMAIN q, j \in DOMAIN q : q[i] = q[j] => i = j

\* C1: whatever runs of the enricher took place over the fetched list,
\* complete or interrupted and restarted, the enriched log holds at most
\* one record per email (and so do the log and the lines still on their
\* way to it together).
C1_AtMostOneRecordPerEmail == NoRepeat(RecordEmails(log \o pending))

C1_Witness ==
  /\ runs = 2
  /\ epc = "idle"
  /\ Len(inProfiles) = 3
  /\ Len(log) = 3
  /\ "alreadyEnriched" \in Range(outcome)
  /\ "written" \in Range(outcome)

\* C2: a profile whose email had a record in the log when the run started
\* is skipped by that run: it is passed over without a lookup (it is never
\* the profile a lookup is in flight for) and no record of the run carries
\* its email.
C2_LoggedEmailSkipped ==
  /\ \A i \in DOMAIN outcome :
       inProfiles[i].email \in startLogEmails => outcome[i] = "alreadyEnriched"
  /\ epc \in {"customerReq", "rateWait", "orderReq"} =>
       inProfiles[idx].email \notin startLogEmails
  /\ EmailsOf(enrichedProfiles) \cap startLogEmails = {}
  /\ epc # "idle" => \A i \in DOMAIN pending : pending[i].obj.email \notin startLogEmails

C2_Witness ==
  /\ epc = "customerReq"
  /\ idx = 2
  /\ outcome = <<"alreadyEnriched">>
  /\ inProfiles[1].email \in startLogEmails

\* C3: in every state of the fetcher the profile list holds every
\* non-empty normalized email of the pages processed so far exactly once,
\* and every email it holds is lowercase and trimmed.
C3_EachEmailExactlyOnce ==
  /\ NoRepeat([i \in DOMAIN profiles |-> profiles[i].email])
  /\ EmailsOf(profiles) = pageEmails
  /\ \A i \in DOMAIN profiles : IsNormalized(profiles[i].email)

C3_Witness ==
  /\ dropped
  /\ page = 3
  /\ Len(profiles) = 2
  /\ profiles[1].profileId = 2

AtNextPage == fpc \in {"request", "backoff", "throttle", "interrupted"}

C5_CappedAtLimit ==
  /\ Len(snapshot) <= limit
  /\ fpc \in {"request", "backoff"} => Len(profiles) < limit

C5_Witness ==
  /\ fpc = "done"
  /\ snapState = "ok"
  /\ limit = 1
  /\ Len(profiles) = 2
  /\ Len(snapshot) = 1

\* C6: a page is requested at most maxRetries times; the wait after the
\* attempt-th failure is 500 ms x attempt; a failed request is followed by
\* that wait and then by the same request again while attempts remain, and
\* by the end of the run (no other request, ever) when they do not.
C6_RetryInv ==
  /\ reqsThisPage <= maxRetries
  /\ attempt <= maxRetries
  /\ fpc = "backoff" => attempt >= 1 /\ delay = 500 * attempt
  /\ abandoned => fpc = "done"

C6_RetryStep ==
  /\ (fpc = "request" /\ page' = page /\ fpc' # "interrupted") =>
        fpc' = "backoff" /\ attempt' = attempt + 1
  /\ (fpc = "backoff" /\ fpc' # "interrupted") =>
        IF attempt < maxRetries
        THEN /\ fpc' = "request"
             /\ reqCursor' = reqCursor
             /\ page' = page
             /\ reqsThisPage' = reqsThisPage + 1
        ELSE fpc' = "done" /\ abandoned'
  /\ fpc = "done" => fpc' = "done"

C6_BoundedRetryThenStop == [](C6_RetryInv) /\ [][C6_RetryStep]_vars

C6_Witness ==
  /\ abandoned
  /\ fpc = "done"
  /\ maxRetries = 2
  /\ attempt = 2
  /\ reqsThisPage = 2
  /\ page = 2

\* C7: a 429 answer to the customer lookup never skips the profile: it is
\* followed by the 1000 ms wait and then by the same lookup for the same
\* profile, with no other request between, and neither the 429 nor the wait
\* counts the profile, gives it an outcome or writes anything.
C7_RateLimitInv == epc = "rateWait" => edelay = 1000 /\ n429 >= 1

C7_RateLimitStep ==
  /\ n429' > n429 =>
       /\ epc = "customerReq"
       /\ epc' = "rateWait"
       /\ n429' = n429 + 1
       /\ UNCHANGED << idx, inProfiles, outcome, processedCount, pending,
                       enrichedProfiles, log >>
  /\ (epc = "rateWait" /\ epc' # "rateWait" /\ epc' # "idle") =>
       /\ epc' = "customerReq"
       /\ UNCHANGED << idx, inProfiles, outcome, processedCount, pending,
                       enrichedProfiles, log, n429 >>

C7_RateLimitRetried == [](C7_RateLimitInv) /\ [][C7_RateLimitStep]_vars

C7_Witness ==
  /\ epc = "orderReq"
  /\ n429 = 2
  /\ idx = 2

SkipKinds == {"noCustomer", "lookupError", "noOrder", "orderError"}

\* C8: the step that skips a profile for a missing customer, a missing
\* order or a failed lookup leaves the log, the lines on their way to it and
\* the list of enriched profiles as they were, and counts the profile (and
\* every already enriched profile passed over right after it).
C8_SkipStep ==
  ( /\ Len(outcome') > Len(outcome)
    /\ SubSeq(outcome', 1, Len(outcome)) = outcome
    /\ outcome'[Len(outcome) + 1] \in SkipKinds )
  => /\ log' = log
     /\ pending' = pending
     /\ enrichedProfiles' = enrichedProfiles
     /\ processedCount' = processedCount + Len(outcome') - Len(outcome)

C8_SkipWritesNothing == [](processedCount = Len(outcome)) /\ [][C8_SkipStep]_vars

C8_Witness ==
  /\ epc = "returned"
  /\ outcome = <<"written", "lookupError", "noOrder">>
  /\ processedCount = 3
  /\ Len(log) + Len(pending) = 1

\* C9 (as stated): when the enricher has a customer lookup in flight, the
\* record of every profile it enriched before is in the log, in processing
\* order.
C9_RecordInLogBeforeNextLookup ==
  epc = "customerReq" =>
    /\ Len(log) >= Len(enrichedProfiles)
    /\ SubSeq(log, Len(log) - Len(enrichedProfiles) + 1, Len(log))
         = [i \in DOMAIN enrichedProfiles |-> StringifyLine(enrichedProfiles[i])]

\* C10: once a page has arrived whose payload has no next link, the run is
\* over: the fetcher is done, without having given a page up, and stays so.
C10_NoNextInv ==
  (json.kind = "ok" /\ json.next.kind = "none") => fpc = "done" /\ ~abandoned

C10_NoNextStep ==
  (json'.kind = "ok" /\ json'.next.kind = "none") => fpc' = "done"

C10_StopsWithoutNextLink == [](C10_NoNextInv) /\ [][C10_NoNextStep]_vars

C10_Witness ==
  /\ json.kind = "ok"
  /\ json.next.kind = "none"
  /\ fpc = "done"
  /\ page = 3
  /\ Len(profiles) = 1
  /\ limit = 2

\* C11: a record failure never aborts the enrichment. In a run the outcomes
\* recorded so far are those of the profiles before the current one, one for
\* each and in input order; the run returns only when every profile of the
\* input has its outcome; and after a missing customer, a missing order or a
\* thrown lookup error the loop goes on with the next profile.
C11_VisitInv ==
  /\ epc \in {"customerReq", "rateWait", "orderReq"} =>
        /\ idx \in 1..Len(inProfiles)
        /\ Len(outcome) = idx - 1
  /\ epc = "returned" =>
        /\ idx = Len(inProfiles) + 1
        /\ Len(outcome) = Len(inProfiles)

C11_VisitStep ==
  (epc \in {"customerReq", "orderReq"} /\ Len(outcome') > Len(outcome)) =>
     /\ SubSeq(outcome', 1, Len(outcome)) = outcome
     /\ idx' > idx
     /\ inProfiles' = inProfiles
     /\ outcome'[idx] \in SkipKinds \cup {"written"}
     /\ \A k \in (idx + 1)..(idx' - 1) : outcome'[k] = "alreadyEnriched"
     /\ IF idx' <= Len(inProfiles) THEN epc' = "customerReq" ELSE epc' = "returned"

C11_RecordFailureNeverAborts == []C11_VisitInv /\ [][C11_VisitStep]_vars

C11_Witness ==
  /\ epc = "returned"
  /\ outcome = << "lookupError", "orderError", "written" >>

\* C18: in one iteration of the page loop the fetcher issues at most
\* maxRetries requests, the first one included; with maxRetries = 0 it never
\* has a request out, and it stops with no profile collected and no snapshot
\* written.
C18_RequestsPerPageBounded ==
  /\ reqsThisPage <= maxRetries
  /\ fpc \in {"request", "backoff", "throttle"} => maxRetries >= 1
  /\ maxRetries = 0 =>
       /\ reqsThisPage = 0
       /\ profiles = <<>>
       /\ seenEmails = {}
       /\ snapState = "absent"
       /\ lastSave = "none"
       /\ page = 1
       /\ (fpc = "done" /\ limit > 0) => abandoned

C18_Witness ==
  /\ maxRetries = 0
  /\ limit = MaxLimit
  /\ fpc = "done"
  /\ abandoned

\* C20: a profile skipped for a missing customer, a missing order or a
\* lookup error leaves nothing behind: every line of the log, written or on
\* its way, is a record with an order, and the emails the run skips are
\* emails the log held at its start. So a profile passed over without a
\* lookup has a record in the log, and a profile skipped in an earlier run
\* with no record in the log gets its customer lookup again.
C20_SkippedLeavesNoTrace ==
  /\ \A k \in DOMAIN log : "mostRecentOrder" \in DOMAIN log[k].obj
  /\ \A k \in DOMAIN pending : "mostRecentOrder" \in DOMAIN pending[k].obj
  /\ processedEmails \subseteq startLogEmails
  /\ \A i \in DOMAIN outcome :
       /\ outcome[i] = "alreadyEnriched" => inProfiles[i].email \in startLogEmails
       /\ (inProfiles[i].email \in everSkipped /\ inProfiles[i].email \notin startLogEmails) =>
             outcome[i] \in SkipKinds \cup {"written"}
  /\ (epc \in {"customerReq", "rateWait", "orderReq"} /\ idx > 1) =>
       \A i \in 1..(idx - 1) :
          (inProfiles[i].email \in everSkipped /\ inProfiles[i].email \notin startLogEmails) =>
             i \in DOMAIN outcome

C20_Witness ==
  /\ runs = 2
  /\ epc = "customerReq"
  /\ inProfiles[idx].email \in everSkipped
  /\ inFlight = << CustomerRequest(inProfiles[idx].email) >>
  /\ outcome = << "alreadyEnriched" >>

\* C14: in a pipeline run at most one HTTP request is in flight at any
\* time, and it is the one the running stage waits for: the page request of
\* the fetcher, or the customer or order lookup of the enricher; while a
\* stage waits on a timer or has ended, none is.
C14_OneRequestInFlight ==
  /\ Len(inFlight) <= 1
  /\ fpc = "request" => inFlight = << SegmentRequest(reqCursor) >>
  /\ fpc \in {"start", "backoff", "throttle", "interrupted"} => inFlight = <<>>
  /\ epc = "customerReq" => inFlight = << CustomerRequest(inProfiles[idx].email) >>
  /\ epc = "orderReq" => inFlight = << OrderRequest(customer) >>
  /\ epc \in {"rateWait", "returned"} => inFlight = <<>>
  /\ (fpc = "done" /\ epc = "idle") => inFlight = <<>>

C14_Witness ==
  /\ epc = "orderReq"
  /\ idx = 2
  /\ snapState = "ok"
  /\ inFlight = << OrderRequest(CustomerId) >>

\* C17 (as stated): the cursor always advances. The request that follows a
\* processed page with a next link asks for the page of that link, which is
\* a later page; the first page (no cursor) is requested only while no page
\* has been processed yet, as the first request or as its retry.
C17_CursorInv ==
  (fpc = "request" /\ reqCursor = Null) => page = 1

C17_CursorStep ==
  (fpc = "throttle" /\ fpc' = "request") =>
     /\ json.kind = "ok"
     /\ json.next.kind = "url"
     /\ reqCursor' = json.next.cursor
     /\ reqCursor' \in Cursors

C17_CursorAlwaysAdvances == [](C17_CursorInv) /\ [][C17_CursorStep]_vars

IsPrefixOf(a, b) == Len(a) <= Len(b) /\ SubSeq(b, 1, Len(a)) = a

GivesPageUp == ~abandoned /\ abandoned'

C19_GrowInv ==
  snapState = "ok" => IsPrefixOf(snapshot, profiles) /\ Len(snapshot) <= limit

C19_GrowStep ==
  /\ IsPrefixOf(profiles, profiles')
  /\ (snapState' = "ok" /\ << snapshot, snapState >>' # << snapshot, snapState >>) =>
        /\ snapshot' = Prefix(profiles', limit)
        /\ lastSave' = "ok"
  /\ (snapState = "ok" /\ snapState' = "ok") => IsPrefixOf(snapshot, snapshot')
  /\ (snapState = "ok" /\ snapState' # "ok") =>
        /\ snapState' = "corrupt"
        /\ lastSave' = "failed"
  /\ GivesPageUp => UNCHANGED << snapshot, snapState, profiles >>

Looking == {"customerReq", "rateWait", "orderReq"}

NonRateLimitedAnswer == EnrichCustomerFound \/ EnrichCustomerMissing

\* C16: the rate-limit retry has no cap. At every customer lookup, however
\* many 429 answers came before, a 429 answer is followed by the wait and
\* the same lookup, the profile neither skipped nor passed; a run that is
\* not killed either returns or stays for ever on the lookup of one
\* profile; and it returns if every customer lookup that is repeated for
\* ever is eventually answered otherwise than by 429.
C16_CanRetryAgain ==
  epc = "customerReq" =>
    ENABLED (EnrichRunNext /\ epc' = "rateWait" /\ UNCHANGED << idx, outcome, processedCount >>)

C16_RetryStep ==
  /\ (epc = "customerReq" /\ n429' # n429 /\ n429' # 0) =>
        /\ epc' = "rateWait"
        /\ UNCHANGED << idx, outcome, processedCount, log, pending >>
  /\ epc = "rateWait" =>
        /\ epc' \in {"rateWait", "customerReq"}
        /\ UNCHANGED << idx, outcome, processedCount, n429 >>
  /\ (epc \in Looking /\ idx' # idx) =>
        /\ epc \in {"customerReq", "orderReq"}
        /\ Len(outcome') > Len(outcome)

C16_ReturnsOrStaysOnOneProfile ==
  \/ [](epc \in Looking => <>(epc = "returned"))
  \/ \E i \in 1..Cardinality(SnapshotProfiles) :
        <>[](idx = i /\ epc \in {"customerReq", "rateWait"})

C16_ReturnsIfAnswered ==
  SF_vars(NonRateLimitedAnswer) => [](epc \in Looking => <>(epc = "returned"))

C16_UnboundedRateLimitRetry ==
  /\ [](C16_CanRetryAgain)
  /\ [][C16_RetryStep]_vars
  /\ C16_ReturnsOrStaysOnOneProfile
  /\ C16_ReturnsIfAnswered

C16_Witness ==
  /\ epc = "rateWait"
  /\ n429 = Max429
  /\ idx = 2
  /\ outcome = << "written" >>

\* C12: a line of the log that is no JSON is ignored and does not end the
\* load: the set loaded is exactly the set of the non-empty emails of the
\* lines that parse, the same as if the invalid lines were not there,
\* however many of them there are and wherever they stand.
C12_MalformedLinesIgnored ==
  runs > 0 =>
    /\ \A e \in processedEmails :
         \E i \in DOMAIN log :
            /\ log[i] \notin InvalidLines
            /\ "email" \in DOMAIN log[i].obj
            /\ log[i].obj.email = e
            /\ e # <<>>
    /\ \A i \in DOMAIN log :
         (log[i] \notin InvalidLines /\ "email" \in DOMAIN log[i].obj /\ log[i].obj.email # <<>>)
            => log[i].obj.email \in processedEmails
    /\ processedEmails =
         LoadProcessedEmailsFromNDJSON(SelectSeq(log, LAMBDA l : l \notin InvalidLines))

C12_Witness ==
  /\ runs = 1
  /\ Len(log) = 3
  /\ log[1] \in InvalidLines
  /\ log[2] \notin InvalidLines
  /\ log[3] \in InvalidLines
  /\ processedEmails = { <<"a">> }

\* C15: the csv script gives a profile whose customer is found and has no
\* order a row of its own, never dropped, with productTitle, sku and
\* orderDate "None"; the file, once written, holds that row with "None" in
\* its last three columns.
C15_NoOrderRowHasNone ==
  /\ Len(results) = Len(xanswers)
  /\ \A i \in DOMAIN xanswers :
       xanswers[i].order = NoOrder =>
          /\ results[i].email = xanswers[i].email
          /\ results[i].productTitle = "None"
          /\ results[i].sku = "None"
          /\ results[i].orderDate = "None"
  /\ xpc = "written" =>
       /\ Len(csvFile) = Len(xanswers)
       /\ \A i \in DOMAIN xanswers :
            xanswers[i].order = NoOrder =>
               /\ csvFile[i][1] = xanswers[i].email
               /\ << csvFile[i][5], csvFile[i][6], csvFile[i][7] >> = << "None", "None", "None" >>

C15_Witness ==
  /\ xpc = "written"
  /\ Len(csvFile) = 2
  /\ xanswers[1].order = NoOrder
  /\ xanswers[2].order \in Orders
  /\ csvFile[1][5] = "None"

\* the line is a record whose order has a title and a sku
Countable(line) ==
  /\ line.json
  /\ "mostRecentOrder" \in DOMAIN line.obj
  /\ line.obj.mostRecentOrder.title # <<>>
  /\ line.obj.mostRecentOrder.sku # <<>>

CountOf(key) ==
  IF \E i \in DOMAIN counts : counts[i].key = key
  THEN (CHOOSE c \in Range(counts) : c.key = key).n
  ELSE 0

\* the lines read so far that carry the title and the sku of product p
RecordsCarrying(p) ==
  Cardinality({ j \in 1..lineCount :
                  /\ Countable(chartLines[j])
                  /\ chartLines[j].obj.mostRecentOrder.title = p.title
                  /\ chartLines[j].obj.mostRecentOrder.sku = p.sku })

\* the lines read so far whose title and sku make the text key
RecordsFormattingTo(key) ==
  Cardinality({ j \in 1..lineCount :
                  /\ Countable(chartLines[j])
                  /\ FormatKey(chartLines[j].obj.mostRecentOrder) = key })

\* the chart holds the MAX_PRODUCTS highest counts, or all if there are
\* fewer, highest first, and no key left out has a higher count than one
\* that is in
TopTenSelected ==
  cpc = "charted" =>
    /\ Len(chart.labels) = Min(10, Len(counts))
    /\ Len(chart.values) = Len(chart.labels)
    /\ \A i \in DOMAIN chart.labels, j \in DOMAIN chart.labels :
         /\ i < j => chart.values[i] >= chart.values[j]
         /\ chart.labels[i] = chart.labels[j] => i = j
    /\ \A i \in DOMAIN chart.labels :
         [key |-> chart.labels[i], n |-> chart.values[i]] \in Range(counts)
    /\ \A c \in Range(counts) :
         c.key \notin Range(chart.labels) =>
            \A i \in DOMAIN chart.values : c.n <= chart.values[i]

\* C13 (as stated): the count of key `title (SKU: sku)` is the number of
\* records that carry that title and that sku, and the chart holds the top
\* 10 keys, highest count first.
C13_CountPerTitleAndSku ==
  /\ \A p \in ChartProducts \cup { FillerProduct(k) : k \in 1..MaxFillers } :
       (p.title # <<>> /\ p.sku # <<>>) => CountOf(FormatKey(p)) = RecordsCarrying(p)
  /\ TopTenSelected

\* C13 (amended): the count of a key is the number of records whose order
\* has a title and a sku that format to the text of that key, and every
\* such record has its key; the chart holds the top 10 keys, highest count
\* first; the example log gives A x 3 before B x 1.
C13_CountPerFormattedKey ==
  /\ \A i \in DOMAIN counts :
       /\ counts[i].n = RecordsFormattingTo(counts[i].key)
       /\ counts[i].n >= 1
       /\ \A j \in DOMAIN counts : counts[j].key = counts[i].key => i = j
  /\ \A j \in 1..lineCount :
       Countable(chartLines[j]) =>
          CountOf(FormatKey(chartLines[j].obj.mostRecentOrder)) >= 1
  /\ TopTenSelected
  /\ (cpc = "charted" /\ chartLines \in ExampleLogs) =>
        /\ chart.labels = << << "A", " (SKU: ", "1", ")" >>, << "B", " (SKU: ", "2", ")" >> >>
        /\ chart.values = << 3, 1 >>

C13_Witness ==
  /\ cpc = "charted"
  /\ Len(counts) = 11
  /\ Len(chart.labels) = 10
  /\ counts[11].n = 2
  /\ chart.values[1] = 2
  /\ chart.labels[1] = counts[11].key

====
